---- MODULE Spec2Model ----
(***************************************************************************)
(* A model of find-a-barn-mapbox: the Express backend (src/server.js, with *)
(* the validation variant of src/server-v1.js) and the Mapbox GL frontend  *)
(* (src/public/app.js).                                                    *)
(*                                                                         *)
(* Four specifications share the module:                                   *)
(*   SpecTile    degToTileXY applied to bounded inputs                     *)
(*   SpecServer  one /geocode or /find-buildings request at a time, each   *)
(*               await of the handler a separate step                      *)
(*   SpecSearch  initializeMap and one searchBuildings call at a time,     *)
(*               over every feature collection of up to MaxFeatures        *)
(*   SpecClient  initializeMap and overlapping searchBuildings calls       *)
(* Numbers: latitudes and longitudes are whole degrees; JavaScript's NaN   *)
(* and Infinity are the sentinels NaN and Infinity below.                  *)
(***************************************************************************)
EXTENDS Integers, Sequences, FiniteSets, TLC

(***************************************************************************)
(* Bounds of the model.                                                    *)
(***************************************************************************)
\* degToTileXY is applied at every zoom 0..MaxZoom
MaxZoom == 19
\* a tile's building layer, and a feature collection, has at most this many features
MaxFeatures == 2
\* searchBuildings calls in flight at once
MaxSearches == 2
\* setTimeout callbacks pending at once
MaxTimers == 1

(***************************************************************************)
(* JavaScript numbers.                                                     *)
(***************************************************************************)
\* NaN: what parseFloat returns for a string with no numeric prefix
NaN == 0 - 1073741824
\* Infinity: Math.log(0) is -Infinity, which line 44 turns into +Infinity
Infinity == 0 + 1073741824

\* n = 2 ** zoom
Pow2(k) == 2 ^ k

\* Math.max(0, v): NaN if v is NaN
MathMax0(v) == IF v = NaN THEN NaN ELSE IF v < 0 THEN 0 ELSE v

(***************************************************************************)
(* degToTileXY (src/server.js 41-51, identical in src/server-v1.js         *)
(* 152-162).                                                               *)
(***************************************************************************)
\* the latitudes and longitudes the model draws, in whole degrees
Lats == {-90, -89, -86, -85, -45, -1, 0, 1, 37, 45, 85, 86, 89, 90}
Lons == {-180, -123, -90, -1, 0, 1, 90, 179, 180}

\* the binary digits kept of the Mercator ordinate
MercBits == 22

\* floor(y * 2^MercBits) for
\*   y = (1 - Math.log(Math.tan(lat*PI/180) + 1/Math.cos(lat*PI/180)) / PI) / 2
\* in IEEE double arithmetic.  At lat = -90 the tangent and the secant cancel
\* exactly, the logarithm is -Infinity and y is +Infinity.
MercY(lat) ==
    CASE lat = -90 -> Infinity
      [] lat = -89 -> 5262211
      [] lat = -86 -> 4336544
      [] lat = -85 -> 4187434
      [] lat = -45 -> 2685507
      [] lat = -1  -> 2108803
      [] lat = 0   -> 2097152
      [] lat = 1   -> 2085500
      [] lat = 37  -> 1632549
      [] lat = 45  -> 1508796
      [] lat = 85  -> 6869
      [] lat = 86  -> 0 - 142241
      [] lat = 89  -> 0 - 1067908
      [] lat = 90  -> 0 - 23286220

\* Math.floor((lon + 180) / 360 * n)
xtileRaw(lon, z) ==
    IF lon = NaN THEN NaN ELSE ((lon + 180) * Pow2(z)) \div 360

\* Math.floor(y * n) with y = (1 + Math.log(...) / PI) / 2: the row counted
\* from the south
ytileRawFromSouth(lat, z) ==
    IF lat = NaN THEN NaN
    ELSE IF MercY(lat) = Infinity THEN Infinity
    ELSE (Pow2(MercBits) - MercY(lat)) \div Pow2(MercBits - z)

\* Math.floor(y * n)
ytileRaw(lat, z) ==
    IF lat = NaN THEN NaN
    ELSE IF MercY(lat) = Infinity THEN Infinity
    ELSE MercY(lat) \div Pow2(MercBits - z)

degToTileXY(lat, lon, z) ==
    [xtile |-> MathMax0(xtileRaw(lon, z)), ytile |-> MathMax0(ytileRaw(lat, z))]

(***************************************************************************)
(* State.                                                                  *)
(***************************************************************************)
VARIABLES
    tArgs,      \* SpecTile: the arguments of the degToTileXY call
    tPc,        \* SpecTile: "call" before the call, "ret" after it
    tRet,       \* SpecTile: the value returned
    build,      \* the server file that runs: "server.js" or "server-v1.js"
    sRoute,     \* the route of the request being handled
    sPc,        \* where its handler is suspended, "idle" or "done"
    sReq,       \* req.query: [lat, lon, query]
    sTile,      \* { xtile, ytile } of the request
    sFetches,   \* the upstream fetches the request has issued, in order
    sUpstream,  \* how the upstream fetch ended, and its status
    sPayload,   \* the body read from the upstream reply
    sDecodes,   \* how many times the handler started to decode a body
    sResponses, \* the responses sent for the request, in order
    iPc,        \* where initializeMap is: "idle", "token", "load" (awaiting the
                \* load event), "loaded" (the event has fired), "ready", "failed"
    map,        \* the global map: "undefined" or "Map"
    mapLoaded,  \* the global mapLoaded
    sources,    \* the ids of the map's sources
    layers,     \* the ids of the map's layers
    clickHandler, \* whether map.on('click') has been registered
    sourceData, \* the data of the 'buildings' source
    camera,     \* the last camera transition issued
    timers,     \* the bounds of the pending setTimeout callbacks, oldest first
    searches,   \* each searchBuildings call: "idle", "geocode", "fetch", "json"
    lastSearch  \* what the last finished searchBuildings call did

tileVars == <<tArgs, tPc, tRet>>
serverVars == <<build, sRoute, sPc, sReq, sTile, sFetches, sUpstream, sPayload,
                sDecodes, sResponses>>
clientVars == <<iPc, map, mapLoaded, sources, layers, clickHandler, sourceData,
                camera, timers, searches, lastSearch>>
vars == <<tileVars, serverVars, clientVars>>

(***************************************************************************)
(* SpecTile: degToTileXY as a pure function of its arguments.              *)
(***************************************************************************)
NoTile == [xtile |-> 0, ytile |-> 0]

TileInit ==
    /\ tArgs \in [lat : Lats \cup {NaN}, lon : Lons \cup {NaN}, z : 0..MaxZoom]
    /\ tPc = "call"
    /\ tRet = NoTile

TileIdle ==
    /\ tArgs = [lat |-> 0, lon |-> 0, z |-> 0]
    /\ tPc = "call"
    /\ tRet = NoTile

CallDegToTileXY ==
    /\ tPc = "call"
    /\ tRet' = degToTileXY(tArgs.lat, tArgs.lon, tArgs.z)
    /\ tPc' = "ret"
    /\ UNCHANGED <<tArgs, serverVars, clientVars>>

(***************************************************************************)
(* The backend: req.query values.                                          *)
(***************************************************************************)
\* a query parameter: absent, "", a word ("abc"), blanks (" "), a number
\* followed by text ("37abc"), or a number ("37")
QueryValues(nums) ==
    {[kind |-> k, num |-> 0] : k \in {"undefined", "empty", "word", "blank"}}
        \cup [kind : {"prefixed", "number"}, num : nums]

Undefined == [kind |-> "undefined", num |-> 0]

\* !v for a query parameter: only undefined and "" are falsy
Falsy(v) == v.kind \in {"undefined", "empty"}

\* parseFloat(v): the leading number, else NaN
parseFloat(v) == IF v.kind \in {"prefixed", "number"} THEN v.num ELSE NaN

\* isNaN(v), that is Number(v) is NaN: "" and " " convert to 0
isNaN(v) == v.kind \in {"undefined", "word", "prefixed"}

\* const zoom = 19
zoom == 19

\* the numbers the lat and lon parameters carry
ReqLats == {37, -86}
ReqLons == {-123, 180}

(***************************************************************************)
(* The upstream tile: what @mapbox/vector-tile reads from the body.        *)
(***************************************************************************)
\* a feature of a layer: its wire type (1 Point, 2 LineString, 3 Polygon)
\* and its geometry command stream, "bad" when it does not decode
TileFeatures ==
    {[type |-> 3, geom |-> "a"], [type |-> 3, geom |-> "b"],
     [type |-> 1, geom |-> "a"], [type |-> 3, geom |-> "bad"]}

SeqsUpTo(S, n) == UNION {[1..k -> S] : k \in 0..n}

\* a body: one the Pbf reader rejects, or a tile with or without a
\* 'building' layer
Payloads ==
    {[kind |-> "corrupt", hasBuilding |-> FALSE, features |-> <<>>],
     [kind |-> "tile", hasBuilding |-> FALSE, features |-> <<>>]}
        \cup [kind : {"tile"}, hasBuilding : {TRUE},
              features : SeqsUpTo(TileFeatures, MaxFeatures)]

NoPayload == [kind |-> "none", hasBuilding |-> FALSE, features |-> <<>>]

GeometryType(t) ==
    CASE t = 1 -> "Point" [] t = 2 -> "LineString" [] t = 3 -> "Polygon"

\* feature.toGeoJSON(x, y, z): the geometry projected from the tile's
\* local grid to longitude and latitude, anchored at tile (z, x, y)
toGeoJSON(f, x, y, z) ==
    [type |-> "Feature",
     geometry |-> [type |-> GeometryType(f.type),
                   coordinates |-> [local |-> f.geom, x |-> x, y |-> y, z |-> z]]]

Throws(f) == f.geom = "bad"

(***************************************************************************)
(* Responses.                                                              *)
(***************************************************************************)
ErrorResponse(status, message) ==
    [status |-> status, kind |-> "error", error |-> message, features |-> <<>>]

\* res.json({ type: "FeatureCollection", features })
FeatureCollectionResponse(features) ==
    [status |-> 200, kind |-> "FeatureCollection", error |-> "", features |-> features]

\* res.json(data) of /geocode
GeocodeResponse ==
    [status |-> 200, kind |-> "geocode", error |-> "", features |-> <<>>]

\* catch (error) { res.status(500).json(...) }
CatchFindBuildings == ErrorResponse(500, "Internal Server Error")

\* Push with unshift in its place: the features come out in reverse
Unshift(features, feature) == <<feature>> \o features

\* features.push(feature)
Push(features, feature) == Append(features, feature)

\* ConvertFrom with a try/catch inside the loop: a feature that does not
\* convert is skipped and the rest is answered
RECURSIVE ConvertSkippingFailures(_, _, _, _)
ConvertSkippingFailures(layer, i, acc, tile) ==
    IF i > Len(layer) THEN [threw |-> FALSE, features |-> acc]
    ELSE IF Throws(layer[i]) THEN ConvertSkippingFailures(layer, i + 1, acc, tile)
    ELSE ConvertSkippingFailures(layer, i + 1,
                     Append(acc, toGeoJSON(layer[i], tile.xtile, tile.ytile, zoom)),
                     tile)

\* for (let i = 0; i < buildingsLayer.length; i++) { ... features.push(feature) }
\* from index i on, features converted so far in acc; a throw leaves the loop
RECURSIVE ConvertFrom(_, _, _, _)
ConvertFrom(layer, i, acc, tile) ==
    IF i > Len(layer) THEN [threw |-> FALSE, features |-> acc]
    ELSE IF Throws(layer[i]) THEN [threw |-> TRUE, features |-> acc]
    ELSE ConvertFrom(layer, i + 1,
                     Push(acc, toGeoJSON(layer[i], tile.xtile, tile.ytile, zoom)),
                     tile)

\* NoBuildingLayer without the if (!buildingsLayer) guard: buildingsLayer.length
\* throws a TypeError into the catch block
NoBuildingLayerUnguarded == CatchFindBuildings

\* tile.layers['building'] is undefined: return res.json(empty collection)
NoBuildingLayer == FeatureCollectionResponse(<<>>)

\* lines 82-102: from new VectorTile(new Pbf(tileData)) to the response
DecodeTile(payload, tile) ==
    IF payload.kind = "corrupt" THEN CatchFindBuildings
    ELSE IF ~payload.hasBuilding THEN NoBuildingLayer
    ELSE LET r == ConvertFrom(payload.features, 1, <<>>, tile)
         IN  IF r.threw THEN CatchFindBuildings
             ELSE FeatureCollectionResponse(r.features)

\* the message of the 400 answer
MissingParams(b) ==
    IF b = "server.js" THEN "Missing lat/lon parameters"
    ELSE "Missing or invalid lat/lon parameters"

\* the parameter check of /find-buildings: server.js line 58, server-v1.js
\* line 182
InvalidParams(b, lat, lon) ==
    IF b = "server.js"
    THEN Falsy(lat) \/ Falsy(lon)
    ELSE Falsy(lat) \/ Falsy(lon) \/ isNaN(lat) \/ isNaN(lon)

NoUpstream == [outcome |-> "none", status |-> 0, body |-> "unread"]
NoReq == [lat |-> Undefined, lon |-> Undefined, query |-> Undefined]

\* response.ok
Ok(status) == status >= 200 /\ status <= 299

\* the statuses the upstream service answers with
Statuses == {200, 401, 404}

ServerInit ==
    /\ build \in {"server.js", "server-v1.js"}
    /\ sRoute = "none"
    /\ sPc = "idle"
    /\ sReq = NoReq
    /\ sTile = NoTile
    /\ sFetches = <<>>
    /\ sUpstream = NoUpstream
    /\ sPayload = NoPayload
    /\ sDecodes = 0
    /\ sResponses = <<>>

ServerIdle == ServerInit /\ build = "server.js"

\* a request arrives once the previous one has been answered
Accepting == sPc \in {"idle", "done"}

Respond(r) == sResponses' = Append(sResponses, r) /\ sPc' = "done"

\* app.get("/find-buildings"): from the start of the handler to await fetch(url)
FindBuildingsRequest(lat, lon) ==
    /\ Accepting
    /\ sRoute' = "find-buildings"
    /\ sReq' = [lat |-> lat, lon |-> lon, query |-> Undefined]
    /\ sUpstream' = NoUpstream
    /\ sPayload' = NoPayload
    /\ sDecodes' = 0
    /\ IF InvalidParams(build, lat, lon)
       THEN /\ sResponses' = <<ErrorResponse(400, MissingParams(build))>>
            /\ sPc' = "done"
            /\ sTile' = NoTile
            /\ sFetches' = <<>>
       ELSE LET t == degToTileXY(parseFloat(lat), parseFloat(lon), zoom)
            IN  /\ sTile' = t
                /\ sFetches' = <<[api |-> "tiles", z |-> zoom, x |-> t.xtile, y |-> t.ytile]>>
                /\ sResponses' = <<>>
                /\ sPc' = "fetch"
    /\ UNCHANGED <<build, tileVars, clientVars>>

\* FindBuildingsFetchRejects with one retry: the fetch is issued again
FindBuildingsFetchRetries ==
    /\ sRoute = "find-buildings" /\ sPc = "fetch"
    /\ IF Len(sFetches) < 2
       THEN /\ sFetches' = Append(sFetches, sFetches[1])
            /\ UNCHANGED <<sUpstream, sPc, sResponses>>
       ELSE /\ sUpstream' = [outcome |-> "rejected", status |-> 0, body |-> "unread"]
            /\ Respond(CatchFindBuildings)
            /\ UNCHANGED sFetches
    /\ UNCHANGED <<build, sRoute, sReq, sTile, sPayload, sDecodes, tileVars, clientVars>>

\* await fetch(url) rejects: the catch block answers 500
FindBuildingsFetchRejects ==
    /\ sRoute = "find-buildings" /\ sPc = "fetch"
    /\ sUpstream' = [outcome |-> "rejected", status |-> 0, body |-> "unread"]
    /\ Respond(CatchFindBuildings)
    /\ UNCHANGED <<build, sRoute, sReq, sTile, sFetches, sPayload, sDecodes, tileVars, clientVars>>

\* FindBuildingsFetchResolves without the if (!response.ok) test: every
\* reply goes on to arrayBuffer() and the decoder
FindBuildingsFetchResolvesUnchecked(status) ==
    /\ sRoute = "find-buildings" /\ sPc = "fetch"
    /\ sUpstream' = [outcome |-> "response", status |-> status, body |-> "unread"]
    /\ sPc' = "arrayBuffer"
    /\ UNCHANGED <<build, sRoute, sReq, sTile, sFetches, sPayload, sDecodes,
                   sResponses, tileVars, clientVars>>

\* await fetch(url) resolves: on !response.ok the handler reads the text
FindBuildingsFetchResolves(status) ==
    /\ sRoute = "find-buildings" /\ sPc = "fetch"
    /\ sUpstream' = [outcome |-> "response", status |-> status, body |-> "unread"]
    /\ sPc' = IF Ok(status) THEN "arrayBuffer" ELSE "text"
    /\ UNCHANGED <<build, sRoute, sReq, sTile, sFetches, sPayload, sDecodes,
                   sResponses, tileVars, clientVars>>

\* line 77 without its return: the error is answered and the handler goes on
\* to await response.arrayBuffer()
FindBuildingsTextResolvesFallsThrough ==
    /\ sRoute = "find-buildings" /\ sPc = "text"
    /\ sResponses' = Append(sResponses, ErrorResponse(sUpstream.status, "Mapbox API Error"))
    /\ sPc' = "arrayBuffer"
    /\ sUpstream' = [sUpstream EXCEPT !.body = "read"]
    /\ UNCHANGED <<build, sRoute, sReq, sTile, sFetches, sPayload,
                   sDecodes, tileVars, clientVars>>

\* await response.text() resolves: res.status(response.status).json(...)
FindBuildingsTextResolves ==
    /\ sRoute = "find-buildings" /\ sPc = "text"
    /\ Respond(ErrorResponse(sUpstream.status, "Mapbox API Error"))
    /\ sUpstream' = [sUpstream EXCEPT !.body = "read"]
    /\ UNCHANGED <<build, sRoute, sReq, sTile, sFetches, sPayload,
                   sDecodes, tileVars, clientVars>>

\* await response.text() rejects (the connection drops while the body is read)
FindBuildingsTextRejects ==
    /\ sRoute = "find-buildings" /\ sPc = "text"
    /\ Respond(CatchFindBuildings)
    /\ sUpstream' = [sUpstream EXCEPT !.body = "failed"]
    /\ UNCHANGED <<build, sRoute, sReq, sTile, sFetches, sPayload,
                   sDecodes, tileVars, clientVars>>

\* await response.arrayBuffer() resolves: decode, convert, answer
FindBuildingsBodyResolves(payload) ==
    /\ sRoute = "find-buildings" /\ sPc = "arrayBuffer"
    /\ sPayload' = payload
    /\ sDecodes' = sDecodes + 1
    /\ Respond(DecodeTile(payload, sTile))
    /\ sUpstream' = [sUpstream EXCEPT !.body = "read"]
    /\ UNCHANGED <<build, sRoute, sReq, sTile, sFetches, tileVars, clientVars>>

\* await response.arrayBuffer() rejects
FindBuildingsBodyRejects ==
    /\ sRoute = "find-buildings" /\ sPc = "arrayBuffer"
    /\ Respond(CatchFindBuildings)
    /\ sUpstream' = [sUpstream EXCEPT !.body = "failed"]
    /\ UNCHANGED <<build, sRoute, sReq, sTile, sFetches, sPayload,
                   sDecodes, tileVars, clientVars>>

\* app.get("/geocode"): from the start of the handler to await fetch(url)
GeocodeRequest(query) ==
    /\ Accepting
    /\ sRoute' = "geocode"
    /\ sReq' = [lat |-> Undefined, lon |-> Undefined, query |-> query]
    /\ sUpstream' = NoUpstream
    /\ sPayload' = NoPayload
    /\ sDecodes' = 0
    /\ sTile' = NoTile
    /\ IF Falsy(query)
       THEN /\ sResponses' = <<ErrorResponse(400, "Missing query parameter")>>
            /\ sPc' = "done"
            /\ sFetches' = <<>>
       ELSE /\ sFetches' = <<[api |-> "geocoding", z |-> 0, x |-> 0, y |-> 0]>>
            /\ sResponses' = <<>>
            /\ sPc' = "fetch"
    /\ UNCHANGED <<build, tileVars, clientVars>>

\* await fetch(url) rejects
GeocodeFetchRejects ==
    /\ sRoute = "geocode" /\ sPc = "fetch"
    /\ sUpstream' = [outcome |-> "rejected", status |-> 0, body |-> "unread"]
    /\ Respond(ErrorResponse(500, "Failed to fetch geocode data"))
    /\ UNCHANGED <<build, sRoute, sReq, sTile, sFetches, sPayload, sDecodes, tileVars, clientVars>>

\* await fetch(url) resolves: !response.ok throws into the catch block
GeocodeFetchResolves(status) ==
    /\ sRoute = "geocode" /\ sPc = "fetch"
    /\ sUpstream' = [outcome |-> "response", status |-> status, body |-> "unread"]
    /\ IF Ok(status)
       THEN sPc' = "json" /\ UNCHANGED sResponses
       ELSE Respond(ErrorResponse(500, "Failed to fetch geocode data"))
    /\ UNCHANGED <<build, sRoute, sReq, sTile, sFetches, sPayload, sDecodes, tileVars, clientVars>>

\* await response.json() resolves: res.json(data)
GeocodeJsonResolves ==
    /\ sRoute = "geocode" /\ sPc = "json"
    /\ Respond(GeocodeResponse)
    /\ sUpstream' = [sUpstream EXCEPT !.body = "read"]
    /\ UNCHANGED <<build, sRoute, sReq, sTile, sFetches, sPayload,
                   sDecodes, tileVars, clientVars>>

\* await response.json() rejects (the body is not JSON)
GeocodeJsonRejects ==
    /\ sRoute = "geocode" /\ sPc = "json"
    /\ Respond(ErrorResponse(500, "Failed to fetch geocode data"))
    /\ sUpstream' = [sUpstream EXCEPT !.body = "failed"]
    /\ UNCHANGED <<build, sRoute, sReq, sTile, sFetches, sPayload,
                   sDecodes, tileVars, clientVars>>

(***************************************************************************)
(* The frontend (src/public/app.js): GeoJSON values.                       *)
(***************************************************************************)
\* the features a /find-buildings answer may hold, by name
Features == {"PolygonA", "PolygonB", "MultiPolygonC", "PointD", "LineStringE", "ZeroRing"}

\* feature.geometry; a coordinate is <<lng, lat>>.  toGeoJSON gives a Polygon
\* at least one ring; the ring of ZeroRing has no point.
Geometry(f) ==
    CASE f = "PolygonA" ->
            [type |-> "Polygon",
             coordinates |-> << <<<<0, 0>>, <<4, 0>>, <<4, 2>>, <<0, 0>>>> >>]
      [] f = "PolygonB" ->
            [type |-> "Polygon",
             coordinates |-> << <<<<6, 6>>, <<8, 6>>, <<8, 8>>, <<6, 6>>>>,
                                <<<<6, 6>>, <<8, 8>>, <<6, 8>>, <<6, 6>>>> >>]
      [] f = "MultiPolygonC" ->
            [type |-> "MultiPolygon",
             coordinates |-> << << <<<<10, 10>>, <<12, 10>>, <<12, 12>>, <<10, 10>>>> >>,
                                << <<<<-4, -4>>, <<-2, -4>>, <<-2, -2>>, <<-4, -4>>>> >> >>]
      [] f = "PointD" -> [type |-> "Point", coordinates |-> <<20, 20>>]
      [] f = "LineStringE" ->
            [type |-> "LineString", coordinates |-> <<<<-10, 0>>, <<-8, 2>>>>]
      [] f = "ZeroRing" -> [type |-> "Polygon", coordinates |-> << <<>> >>]

\* the body of a /find-buildings answer once parsed: a FeatureCollection, or
\* the { error } object of a 4xx/5xx answer (response.ok is not looked at)
FeatureCollection(features) ==
    [type |-> "FeatureCollection", features |-> features]
ErrorBody == [type |-> "error", features |-> <<>>]

SeqRange(s) == {s[k] : k \in 1..Len(s)}

\* every coordinate of a feature's geometry
AllPoints(f) ==
    LET g == Geometry(f)
    IN  CASE g.type = "Point" -> {g.coordinates}
          [] g.type = "LineString" -> SeqRange(g.coordinates)
          [] g.type = "Polygon" ->
                UNION {SeqRange(ring) : ring \in SeqRange(g.coordinates)}
          [] g.type = "MultiPolygon" ->
                UNION {SeqRange(ring) :
                          ring \in UNION {SeqRange(poly) : poly \in SeqRange(g.coordinates)}}

(***************************************************************************)
(* mapboxgl.LngLatBounds.                                                  *)
(***************************************************************************)
Min(a, b) == IF a <= b THEN a ELSE b
Max(a, b) == IF a >= b THEN a ELSE b

\* new mapboxgl.LngLatBounds()
NewLngLatBounds == [empty |-> TRUE, w |-> 0, s |-> 0, e |-> 0, n |-> 0]

\* b.extend(coord)
extend(b, coord) ==
    IF b.empty
    THEN [empty |-> FALSE, w |-> coord[1], s |-> coord[2], e |-> coord[1], n |-> coord[2]]
    ELSE [empty |-> FALSE,
          w |-> Min(b.w, coord[1]), s |-> Min(b.s, coord[2]),
          e |-> Max(b.e, coord[1]), n |-> Max(b.n, coord[2])]

isEmpty(b) == b.empty

\* bounds.getCenter(): the coordinates of the model are even
getCenter(b) == <<(b.w + b.e) \div 2, (b.s + b.n) \div 2>>

\* coordinates[0].forEach(coord => b.extend(coord))
RECURSIVE ForEachExtend(_, _, _)
ForEachExtend(ring, k, b) ==
    IF k > Len(ring) THEN b ELSE ForEachExtend(ring, k + 1, extend(b, ring[k]))

\* the reducer of lines 140-145, applied to one feature
ReduceStep(b, feature) ==
    IF Geometry(feature).type = "Polygon"
    THEN ForEachExtend(Geometry(feature).coordinates[1], 1, b)
    ELSE b

\* data.features.reduce(..., new mapboxgl.LngLatBounds())
RECURSIVE Reduce(_, _, _)
Reduce(features, k, b) ==
    IF k > Len(features) THEN b
    ELSE Reduce(features, k + 1, ReduceStep(b, features[k]))

(***************************************************************************)
(* Camera transitions.                                                     *)
(***************************************************************************)
\* the map's own zoom ceiling (Mapbox GL's default maxZoom)
MapMaxZoom == 22
\* fitBounds' maxZoom option
maxZoom == 19
\* flyTo's zoom
flyToZoom == 19

\* the zoom at which a box fills the viewport: the larger the box, the lower
FitZoom(b) == Max(0, MapMaxZoom - Max(b.e - b.w, b.n - b.s))

\* fitBounds without the maxZoom option: the map zooms until the box fills
\* the viewport
fitBoundsUncapped(bounds) ==
    [op |-> "fitBounds", bounds |-> bounds, center |-> getCenter(bounds),
     zoom |-> FitZoom(bounds)]

\* map.fitBounds(bounds, { padding: 10, maxZoom: 19, duration: 800 })
fitBounds(bounds) ==
    [op |-> "fitBounds", bounds |-> bounds, center |-> getCenter(bounds),
     zoom |-> Min(FitZoom(bounds), maxZoom)]

\* map.flyTo({ center: bounds.getCenter(), zoom: 19, speed: 1.5 })
flyTo(bounds) ==
    [op |-> "flyTo", bounds |-> bounds, center |-> getCenter(bounds),
     zoom |-> flyToZoom]

\* the camera new mapboxgl.Map({ center, zoom: 19 }) starts with
InitialCamera ==
    [op |-> "init", bounds |-> NewLngLatBounds, center |-> <<-122, 38>>, zoom |-> 19]
NoCamera ==
    [op |-> "none", bounds |-> NewLngLatBounds, center |-> <<0, 0>>, zoom |-> 0]

(***************************************************************************)
(* initializeMap.                                                          *)
(***************************************************************************)
NoSearch == [outcome |-> "none", bounds |-> NewLngLatBounds, ops |-> <<>>]

ClientInit ==
    /\ iPc = "idle"
    /\ map = "undefined"
    /\ mapLoaded = FALSE
    /\ sources = {}
    /\ layers = {}
    /\ clickHandler = FALSE
    /\ sourceData = FeatureCollection(<<>>)
    /\ camera = NoCamera
    /\ timers = <<>>
    /\ searches = [i \in 1..MaxSearches |-> "idle"]
    /\ lastSearch = NoSearch

\* document.addEventListener('DOMContentLoaded', initializeMap): up to the
\* await of getMapboxToken's fetch('/config')
DOMContentLoaded ==
    /\ iPc = "idle"
    /\ iPc' = "token"
    /\ UNCHANGED <<map, mapLoaded, sources, layers, clickHandler, sourceData,
                   camera, timers, searches, lastSearch, tileVars, serverVars>>

\* getMapboxToken returns a token: the map is constructed, then
\* await new Promise(resolve => map.on('load', resolve))
TokenResolves ==
    /\ iPc = "token"
    /\ map' = "Map"
    /\ camera' = InitialCamera
    /\ iPc' = "load"
    /\ UNCHANGED <<mapLoaded, sources, layers, clickHandler, sourceData,
                   timers, searches, lastSearch, tileVars, serverVars>>

\* getMapboxToken fails or returns no token: throw, catch, alert
TokenFails ==
    /\ iPc = "token"
    /\ iPc' = "failed"
    /\ UNCHANGED <<map, mapLoaded, sources, layers, clickHandler, sourceData,
                   camera, timers, searches, lastSearch, tileVars, serverVars>>

\* the map fires its load event, which resolves the awaited promise
MapLoadEvent ==
    /\ iPc = "load"
    /\ iPc' = "loaded"
    /\ UNCHANGED <<map, mapLoaded, sources, layers, clickHandler, sourceData,
                   camera, timers, searches, lastSearch, tileVars, serverVars>>

\* initializeMap resumes: mapLoaded = true, addSource, addLayer, on('click')
MapLoad ==
    /\ iPc = "loaded"
    /\ mapLoaded' = TRUE
    /\ sources' = sources \cup {"buildings"}
    /\ sourceData' = FeatureCollection(<<>>)
    /\ layers' = layers \cup {"building-polygons"}
    /\ clickHandler' = TRUE
    /\ iPc' = "ready"
    /\ UNCHANGED <<map, camera, timers, searches, lastSearch, tileVars, serverVars>>

(***************************************************************************)
(* searchBuildings and its callers.                                        *)
(***************************************************************************)
SetSearch(i, pc) == searches' = [searches EXCEPT ![i] = pc]

initVars == <<iPc, map, mapLoaded, sources, layers, clickHandler>>

\* window.findBuildings with "lat, lng" typed in: searchBuildings up to
\* await fetch(`/find-buildings?...`)
FindBuildingsCoordinates(i) ==
    /\ searches[i] = "idle"
    /\ SetSearch(i, "fetch")
    /\ UNCHANGED <<initVars, sourceData, camera, timers, lastSearch, tileVars, serverVars>>

\* window.findBuildings with an address: up to the await of geocodeLocation
FindBuildingsAddress(i) ==
    /\ searches[i] = "idle"
    /\ SetSearch(i, "geocode")
    /\ UNCHANGED <<initVars, sourceData, camera, timers, lastSearch, tileVars, serverVars>>

\* geocodeLocation returns: features[0].center goes to searchBuildings, no
\* feature alerts 'Location not found.', undefined (a failed fetch) throws
GeocodeReturns(i, found) ==
    /\ searches[i] = "geocode"
    /\ SetSearch(i, IF found THEN "fetch" ELSE "idle")
    /\ UNCHANGED <<initVars, sourceData, camera, timers, lastSearch, tileVars, serverVars>>

\* map.on('click'): searchBuildings(lat, lng) up to await fetch
MapClick(i) ==
    /\ clickHandler
    /\ searches[i] = "idle"
    /\ SetSearch(i, "fetch")
    /\ UNCHANGED <<initVars, sourceData, camera, timers, lastSearch, tileVars, serverVars>>

\* await fetch resolves: await response.json() follows
SearchFetchResolves(i) ==
    /\ searches[i] = "fetch"
    /\ SetSearch(i, "json")
    /\ UNCHANGED <<initVars, sourceData, camera, timers, lastSearch, tileVars, serverVars>>

\* await fetch or await response.json() rejects: catch, alert
SearchRejects(i) ==
    /\ searches[i] \in {"fetch", "json"}
    /\ SetSearch(i, "idle")
    /\ lastSearch' = [outcome |-> "error", bounds |-> NewLngLatBounds, ops |-> <<>>]
    /\ UNCHANGED <<initVars, sourceData, camera, timers, tileVars, serverVars>>

\* lines 147-158: the bounds decide whether the camera moves
AfterBounds(bounds) ==
    IF isEmpty(bounds)
    THEN [outcome |-> "empty-bounds", bounds |-> bounds,
          ops |-> <<"getSource", "setData">>]
    ELSE [outcome |-> "camera", bounds |-> bounds,
          ops |-> <<"getSource", "setData", "fitBounds", "setTimeout">>]

\* lines 122-158, from the parsed body to the end of searchBuildings
\* searchBuildings without lines 128-131, the test of mapLoaded
SearchResultWithoutLoadTest(data) ==
    IF Len(data.features) = 0
    THEN [outcome |-> "no-buildings", bounds |-> NewLngLatBounds, ops |-> <<>>]
    ELSE IF "buildings" \notin sources
    THEN [outcome |-> "no-source", bounds |-> NewLngLatBounds, ops |-> <<"getSource">>]
    ELSE AfterBounds(Reduce(data.features, 1, NewLngLatBounds))

SearchResult(data) ==
    IF Len(data.features) = 0
    THEN [outcome |-> "no-buildings", bounds |-> NewLngLatBounds, ops |-> <<>>]
    ELSE IF ~mapLoaded
    THEN [outcome |-> "not-loaded", bounds |-> NewLngLatBounds, ops |-> <<>>]
    ELSE IF "buildings" \notin sources
    THEN [outcome |-> "no-source", bounds |-> NewLngLatBounds, ops |-> <<"getSource">>]
    ELSE AfterBounds(Reduce(data.features, 1, NewLngLatBounds))

Did(r, op) == \E k \in 1..Len(r.ops) : r.ops[k] = op

\* await response.json() resolves with data
SearchJsonResolves(i, data) ==
    /\ searches[i] = "json"
    /\ Len(timers) < MaxTimers
    /\ SetSearch(i, "idle")
    /\ \E r \in {SearchResult(data)} :
           /\ lastSearch' = r
           /\ sourceData' = IF Did(r, "setData") THEN data ELSE sourceData
           /\ camera' = IF Did(r, "fitBounds") THEN fitBounds(r.bounds) ELSE camera
           /\ timers' = IF Did(r, "setTimeout") THEN Append(timers, r.bounds) ELSE timers
    /\ UNCHANGED <<initVars, tileVars, serverVars>>

\* the setTimeout callback, 1000 ms later: map.flyTo
FlyToTimer ==
    /\ timers # <<>>
    /\ camera' = flyTo(Head(timers))
    /\ timers' = Tail(timers)
    /\ UNCHANGED <<initVars, sourceData, searches, lastSearch, tileVars, serverVars>>

(***************************************************************************)
(* Specifications.                                                         *)
(***************************************************************************)
TileNext == CallDegToTileXY

InitTile == TileInit /\ ServerIdle /\ ClientInit

SpecTile == InitTile /\ [][TileNext]_vars

ServerNext ==
    \/ \E lat \in QueryValues(ReqLats), lon \in QueryValues(ReqLons) :
           FindBuildingsRequest(lat, lon)
    \/ FindBuildingsFetchRejects
    \/ \E status \in Statuses : FindBuildingsFetchResolves(status)
    \/ FindBuildingsTextResolves
    \/ FindBuildingsTextRejects
    \/ \E payload \in Payloads : FindBuildingsBodyResolves(payload)
    \/ FindBuildingsBodyRejects
    \/ \E query \in QueryValues({}) : GeocodeRequest(query)
    \/ GeocodeFetchRejects
    \/ \E status \in Statuses : GeocodeFetchResolves(status)
    \/ GeocodeJsonResolves
    \/ GeocodeJsonRejects

InitServer == ServerInit /\ TileIdle /\ ClientInit

SpecServer == InitServer /\ [][ServerNext]_vars

\* the bodies a /find-buildings answer parses to
Bodies == {ErrorBody} \cup {FeatureCollection(fs) : fs \in SeqsUpTo(Features, MaxFeatures)}

\* the bodies the concurrent specification draws: an error, two collections
\* with different bounds, and one whose bounds stay empty
SampleBodies ==
    {ErrorBody, FeatureCollection(<<"PolygonA">>), FeatureCollection(<<"PolygonB">>),
     FeatureCollection(<<"MultiPolygonC">>)}

\* searchBuildings calls overlapping each other and initializeMap
ClientNext ==
    \/ DOMContentLoaded
    \/ TokenResolves
    \/ TokenFails
    \/ MapLoadEvent
    \/ MapLoad
    \/ \E i \in 1..MaxSearches : FindBuildingsCoordinates(i)
    \/ \E i \in 1..MaxSearches : FindBuildingsAddress(i)
    \/ \E i \in 1..MaxSearches, found \in BOOLEAN : GeocodeReturns(i, found)
    \/ \E i \in 1..MaxSearches : MapClick(i)
    \/ \E i \in 1..MaxSearches : SearchFetchResolves(i)
    \/ \E i \in 1..MaxSearches : SearchRejects(i)
    \/ \E i \in 1..MaxSearches, data \in SampleBodies : SearchJsonResolves(i, data)
    \/ FlyToTimer

InitClient == ClientInit /\ TileIdle /\ ServerIdle

SpecClient == InitClient /\ [][ClientNext]_vars

\* one searchBuildings call at a time
SearchNext ==
    \/ DOMContentLoaded
    \/ TokenResolves
    \/ TokenFails
    \/ MapLoadEvent
    \/ MapLoad
    \/ \E i \in {1} : FindBuildingsCoordinates(i)
    \/ \E i \in {1} : FindBuildingsAddress(i)
    \/ \E i \in {1}, found \in BOOLEAN : GeocodeReturns(i, found)
    \/ \E i \in {1} : MapClick(i)
    \/ \E i \in {1} : SearchFetchResolves(i)
    \/ \E i \in {1} : SearchRejects(i)
    \/ \E i \in {1}, data \in Bodies : SearchJsonResolves(i, data)
    \/ FlyToTimer

SpecSearch == InitClient /\ [][SearchNext]_vars

(***************************************************************************)
(* C1: for every finite latitude in [-90, 90], longitude in [-180, 180]    *)
(* and zoom z, the tile address returned by degToTileXY has column and row *)
(* both in 0 .. 2^z - 1 (clamped to 0 below and to 2^z - 1 above).         *)
(* The code clamps only below: longitude 180 gives column 2^z.             *)
(***************************************************************************)
InGrid(v, z) == v # NaN /\ 0 <= v /\ v <= Pow2(z) - 1

C1_TileInGrid ==
    (tPc = "ret" /\ tArgs.lat # NaN /\ tArgs.lon # NaN)
        => (InGrid(tRet.xtile, tArgs.z) /\ InGrid(tRet.ytile, tArgs.z))

\* longitude 180 at zoom 19: column 524288, one past the last column
C1_Witness ==
    /\ tPc = "ret"
    /\ tArgs = [lat |-> 0, lon |-> 180, z |-> 19]
    /\ tRet = [xtile |-> 524288, ytile |-> 262144]

(***************************************************************************)
(* C2: when lat or lon of a /find-buildings request is missing or does not *)
(* parse to a number, the request is answered 400 and no upstream fetch is *)
(* issued for it.                                                          *)
(* server.js only tests !lat || !lon: lat=abc reaches the fetch.           *)
(***************************************************************************)
C2_InvalidCoordinateRejected ==
    (sRoute = "find-buildings"
        /\ (parseFloat(sReq.lat) = NaN \/ parseFloat(sReq.lon) = NaN))
        => /\ sFetches = <<>>
           /\ sPc = "done"
           /\ Len(sResponses) = 1
           /\ sResponses[1].status = 400

\* server.js with lat=abc&lon=-123: the tile .../19/83012/NaN.mvt is fetched
C2_Witness ==
    /\ build = "server.js"
    /\ sRoute = "find-buildings"
    /\ sReq.lat.kind = "word" /\ sReq.lon = [kind |-> "number", num |-> -123]
    /\ sFetches = <<[api |-> "tiles", z |-> 19, x |-> 83012, y |-> NaN]>>

(***************************************************************************)
(* C3: when the upstream fetch succeeds and the decoded tile has no        *)
(* 'building' layer, /find-buildings answers 200 with a FeatureCollection  *)
(* whose features list is empty, never with an error.                      *)
(***************************************************************************)
TileWithoutBuildings ==
    /\ sRoute = "find-buildings" /\ sPc = "done"
    /\ sUpstream.outcome = "response" /\ Ok(sUpstream.status)
    /\ sPayload.kind = "tile" /\ ~sPayload.hasBuilding

C3_MissingLayerIsEmptyCollection ==
    TileWithoutBuildings
        => /\ Len(sResponses) = 1
           /\ sResponses[1].status = 200
           /\ sResponses[1].kind = "FeatureCollection"
           /\ sResponses[1].features = <<>>

C3_Witness == TileWithoutBuildings /\ Len(sResponses) = 1

(***************************************************************************)
(* C4: decoding is all-or-nothing per tile: if parsing the payload or      *)
(* converting any feature of the building layer fails, the response is a   *)
(* 500 error holding none of the features converted before the failure; a  *)
(* FeatureCollection is sent only after every feature has been converted.  *)
(***************************************************************************)
PayloadFails(p) ==
    \/ p.kind = "corrupt"
    \/ p.hasBuilding /\ \E i \in 1..Len(p.features) : Throws(p.features[i])

Decoded == sRoute = "find-buildings" /\ sPc = "done" /\ sPayload.kind # "none"

C4_DecodeAllOrNothing ==
    Decoded
        => /\ Len(sResponses) = 1
           /\ PayloadFails(sPayload)
                => /\ sResponses[1].status = 500
                   /\ sResponses[1].kind = "error"
                   /\ sResponses[1].features = <<>>
           /\ sResponses[1].kind = "FeatureCollection"
                => /\ ~PayloadFails(sPayload)
                   /\ Len(sResponses[1].features) = Len(sPayload.features)

\* feature 0 converts, feature 1 throws, and the answer is the bare error
C4_Witness ==
    /\ Decoded
    /\ Len(sPayload.features) = 2
    /\ ~Throws(sPayload.features[1]) /\ Throws(sPayload.features[2])
    /\ sResponses = <<ErrorResponse(500, "Internal Server Error")>>

(***************************************************************************)
(* C5: when the upstream tile fetch returns a non-2xx status,              *)
(* /find-buildings does not decode the body and answers with an error      *)
(* carrying the upstream status code, never with a FeatureCollection.      *)
(* As stated it fails when reading the error text rejects: the catch block *)
(* then answers 500.  C5_Original is the claim as stated, C5_Amended adds  *)
(* that case.                                                              *)
(***************************************************************************)
UpstreamNon2xx ==
    /\ sRoute = "find-buildings" /\ sPc = "done"
    /\ sUpstream.outcome = "response" /\ ~Ok(sUpstream.status)

C5_Original ==
    UpstreamNon2xx
        => /\ sDecodes = 0
           /\ Len(sResponses) = 1
           /\ sResponses[1].kind = "error"
           /\ sResponses[1].status = sUpstream.status

C5_Amended ==
    UpstreamNon2xx
        => /\ sDecodes = 0
           /\ Len(sResponses) = 1
           /\ sResponses[1].kind = "error"
           /\ sResponses[1].features = <<>>
           /\ sResponses[1].status =
                 IF sUpstream.body = "read" THEN sUpstream.status ELSE 500

C5_Witness ==
    /\ UpstreamNon2xx
    /\ sUpstream.status = 404
    /\ sResponses = <<ErrorResponse(404, "Mapbox API Error")>>

(***************************************************************************)
(* C6: no automatic retry: a single /find-buildings or /geocode request    *)
(* issues at most one upstream fetch, whether that fetch succeeds, fails   *)
(* or returns non-2xx, and a failure is reported to the caller.            *)
(***************************************************************************)
UpstreamFailed ==
    \/ sUpstream.outcome = "rejected"
    \/ sUpstream.outcome = "response" /\ ~Ok(sUpstream.status)

C6_NoRetry ==
    /\ Len(sFetches) <= 1
    /\ (sPc = "done" /\ UpstreamFailed)
          => /\ Len(sResponses) = 1
             /\ sResponses[1].kind = "error"
             /\ sResponses[1].status >= 400

C6_Witness ==
    /\ sRoute = "geocode" /\ sPc = "done"
    /\ sUpstream.outcome = "rejected"
    /\ Len(sFetches) = 1
    /\ sResponses = <<ErrorResponse(500, "Failed to fetch geocode data")>>

(***************************************************************************)
(* C7: on success the FeatureCollection has exactly one feature per        *)
(* feature of the tile's building layer, in decode order: feature k of the *)
(* response is the conversion of layer feature k; nothing is dropped,      *)
(* reordered or deduplicated.                                              *)
(***************************************************************************)
Succeeded ==
    /\ Decoded
    /\ sPayload.hasBuilding
    /\ Len(sResponses) = 1
    /\ sResponses[1].kind = "FeatureCollection"

C7_OneFeaturePerLayerFeature ==
    Succeeded
        => /\ Len(sResponses[1].features) = Len(sPayload.features)
           /\ \A k \in 1..Len(sPayload.features) :
                 sResponses[1].features[k] =
                     toGeoJSON(sPayload.features[k], sTile.xtile, sTile.ytile, zoom)

\* two identical layer features give two response features
C7_Witness ==
    /\ Succeeded
    /\ Len(sResponses[1].features) = 2
    /\ sPayload.features[1] = sPayload.features[2]
    /\ sResponses[1].features[1] = sResponses[1].features[2]

(***************************************************************************)
(* C8: the bounding box computed for a feature collection covers every     *)
(* coordinate of every ring of every Polygon and MultiPolygon feature, and *)
(* the points of Point and LineString features.                            *)
(* The reducer extends the bounds only by ring 0 of Polygon features.      *)
(***************************************************************************)
\* the last searchBuildings call computed bounds, of the data it had just
\* handed to the 'buildings' source
BoundsComputed == lastSearch.outcome \in {"empty-bounds", "camera"}

Inside(p, b) ==
    /\ ~b.empty
    /\ b.w <= p[1] /\ p[1] <= b.e
    /\ b.s <= p[2] /\ p[2] <= b.n

C8_BoundsCoverEveryPoint ==
    BoundsComputed
        => \A k \in 1..Len(sourceData.features) :
              \A p \in AllPoints(sourceData.features[k]) :
                  Inside(p, lastSearch.bounds)

\* a Polygon and a MultiPolygon: the bounds are those of the Polygon alone
C8_Witness ==
    /\ sourceData.features = <<"PolygonA", "MultiPolygonC">>
    /\ lastSearch.outcome = "camera"
    /\ lastSearch.bounds = [empty |-> FALSE, w |-> 0, s |-> 0, e |-> 4, n |-> 2]

(***************************************************************************)
(* C9: the bounding box is the empty sentinel exactly when the collection  *)
(* has zero features or zero coordinate points, and then searchBuildings   *)
(* issues no camera transition (neither fitBounds nor the delayed flyTo);  *)
(* whenever the collection has at least one coordinate point the bounds    *)
(* are non-empty and a camera transition is issued.                        *)
(* It fails with C8: a collection of MultiPolygon features has points and  *)
(* empty bounds.                                                           *)
(***************************************************************************)
HasPoints(fc) ==
    \E k \in 1..Len(fc.features) : AllPoints(fc.features[k]) # {}

MovesCamera(r) == Did(r, "fitBounds") \/ Did(r, "setTimeout")

C9_EmptyExactlyWithoutPoints ==
    /\ lastSearch.outcome = "no-buildings" => ~MovesCamera(lastSearch)
    /\ BoundsComputed
          => /\ isEmpty(lastSearch.bounds) <=> ~HasPoints(sourceData)
             /\ isEmpty(lastSearch.bounds) => ~MovesCamera(lastSearch)
             /\ HasPoints(sourceData)
                   => Did(lastSearch, "fitBounds") /\ Did(lastSearch, "setTimeout")

\* a collection of one MultiPolygon: points, empty bounds, no camera move
C9_Witness ==
    /\ sourceData.features = <<"MultiPolygonC">>
    /\ lastSearch.outcome = "empty-bounds"
    /\ isEmpty(lastSearch.bounds)
    /\ ~MovesCamera(lastSearch)

(***************************************************************************)
(* C10: every camera transition searchBuildings derives from a bounding    *)
(* box targets the centre of that box with a zoom of at most 19, whatever  *)
(* the size of the box.                                                    *)
(***************************************************************************)
CameraMoved == camera.op \in {"fitBounds", "flyTo"}

C10_CameraAtCentreZoomAtMost19 ==
    CameraMoved
        => /\ ~isEmpty(camera.bounds)
           /\ camera.zoom <= 19
           /\ 2 * camera.center[1] = camera.bounds.w + camera.bounds.e
           /\ 2 * camera.center[2] = camera.bounds.s + camera.bounds.n

\* a footprint so small that it would fit at a zoom above 19
C10_Witness ==
    /\ camera.op = "fitBounds"
    /\ FitZoom(camera.bounds) > 19
    /\ camera.zoom = 19

(***************************************************************************)
(* C11: at a fixed zoom degToTileXY is monotonic in each axis: with the    *)
(* latitude held, a larger longitude never gives a smaller column; with    *)
(* the longitude held and both latitudes in (-85, 85), a larger latitude   *)
(* never gives a larger row.  The column depends only on the longitude and *)
(* the row only on the latitude.                                           *)
(***************************************************************************)
InsideMercator(lat) == lat # NaN /\ -85 < lat /\ lat < 85

C11_MonotonicPerAxis ==
    tPc = "ret" =>
        /\ tArgs.lon # NaN =>
               \A lon2 \in Lons : lon2 >= tArgs.lon =>
                   degToTileXY(tArgs.lat, lon2, tArgs.z).xtile >= tRet.xtile
        /\ InsideMercator(tArgs.lat) =>
               \A lat2 \in Lats : (InsideMercator(lat2) /\ lat2 >= tArgs.lat) =>
                   degToTileXY(lat2, tArgs.lon, tArgs.z).ytile <= tRet.ytile
        /\ \A lat2 \in Lats \cup {NaN} :
               degToTileXY(lat2, tArgs.lon, tArgs.z).xtile = tRet.xtile
        /\ \A lon2 \in Lons \cup {NaN} :
               degToTileXY(tArgs.lat, lon2, tArgs.z).ytile = tRet.ytile

\* (37, -123) at zoom 19: one degree east is a later column, 45 north an
\* earlier row
C11_Witness ==
    /\ tPc = "ret"
    /\ tArgs = [lat |-> 37, lon |-> -123, z |-> 19]
    /\ tRet = [xtile |-> 83012, ytile |-> 204068]
    /\ degToTileXY(37, -1, 19).xtile > tRet.xtile
    /\ degToTileXY(45, -123, 19).ytile < tRet.ytile

(***************************************************************************)
(* C12: under every interleaving of initializeMap with searches, the       *)
(* 'buildings' source and the 'building-polygons' layer are attached only  *)
(* after the map's load event has fired, and searchBuildings performs no   *)
(* operation on the map (getSource, setData, fitBounds, flyTo) while the   *)
(* map is not loaded, also when initialization failed and no map was       *)
(* constructed.                                                            *)
(***************************************************************************)
Attached == "buildings" \in sources \/ "building-polygons" \in layers

\* what searchBuildings leaves behind when it operates on the map
SearchTouchedMap ==
    \/ lastSearch.ops # <<>>
    \/ sourceData # FeatureCollection(<<>>)
    \/ camera.op \in {"fitBounds", "flyTo"}
    \/ timers # <<>>

C12_MapUntouchedUntilLoaded ==
    /\ Attached => (iPc = "ready" /\ mapLoaded)
    /\ ~mapLoaded => ~SearchTouchedMap
    /\ iPc = "failed" => (map = "undefined" /\ ~mapLoaded /\ ~Attached)

\* a search whose reply has buildings finishes after initialization failed
C12_Witness ==
    /\ iPc = "failed"
    /\ map = "undefined"
    /\ lastSearch.outcome = "not-loaded"
    /\ \A i \in 1..MaxSearches : searches[i] = "idle"

(***************************************************************************)
(* C13: every /find-buildings and /geocode request receives exactly one    *)
(* HTTP response on every control path (parameter rejection, upstream      *)
(* non-2xx, missing layer, successful decode, thrown exception): a handler *)
(* that has not answered is suspended at an await that can settle, a       *)
(* handler that has returned has sent one response, and none sends a       *)
(* second.                                                                 *)
(***************************************************************************)
\* the awaits of the two handlers
Awaits ==
    IF sRoute = "find-buildings" THEN {"fetch", "text", "arrayBuffer"}
    ELSE IF sRoute = "geocode" THEN {"fetch", "json"}
    ELSE {}

\* the awaited promise settles
Settles ==
    \/ FindBuildingsFetchRejects
    \/ \E status \in Statuses : FindBuildingsFetchResolves(status)
    \/ FindBuildingsTextResolves
    \/ FindBuildingsTextRejects
    \/ \E payload \in Payloads : FindBuildingsBodyResolves(payload)
    \/ FindBuildingsBodyRejects
    \/ GeocodeFetchRejects
    \/ \E status \in Statuses : GeocodeFetchResolves(status)
    \/ GeocodeJsonResolves
    \/ GeocodeJsonRejects

C13_ExactlyOneResponse ==
    /\ Len(sResponses) <= 1
    /\ sRoute = "none" => (sPc = "idle" /\ sResponses = <<>>)
    /\ sRoute # "none" =>
           \/ sPc = "done" /\ Len(sResponses) = 1
           \/ sPc \in Awaits /\ sResponses = <<>> /\ ENABLED Settles

\* /geocode: response.json() throws on the upstream body, the catch answers 500
C13_Witness ==
    /\ sRoute = "geocode"
    /\ sPc = "done"
    /\ sUpstream.body = "failed"
    /\ sResponses = <<ErrorResponse(500, "Failed to fetch geocode data")>>

(***************************************************************************)
(* C14: for any sequence of possibly overlapping searchBuildings calls on  *)
(* a loaded map, once every response has been handled and every delayed    *)
(* flyTo timer has fired, the centre of the last camera transition is the  *)
(* centre of the bounding box of the feature collection the 'buildings'    *)
(* source holds: the displayed data and the final camera position come     *)
(* from the same search.                                                   *)
(* It fails with C8: setData runs before the bounds are computed, and a    *)
(* collection of MultiPolygon features leaves them empty, so the source    *)
(* holds the new collection while the camera stays on an earlier one.      *)
(***************************************************************************)
Quiescent ==
    /\ \A i \in 1..MaxSearches : searches[i] = "idle"
    /\ timers = <<>>

PointsOf(fc) == UNION {AllPoints(fc.features[k]) : k \in 1..Len(fc.features)}

Least(S) == CHOOSE v \in S : \A u \in S : v <= u
Greatest(S) == CHOOSE v \in S : \A u \in S : v >= u

\* the centre of the bounding box of a non-empty set of points
BoxCentre(P) ==
    <<(Least({p[1] : p \in P}) + Greatest({p[1] : p \in P})) \div 2,
      (Least({p[2] : p \in P}) + Greatest({p[2] : p \in P})) \div 2>>

C14_CameraOnDisplayedData ==
    (Quiescent /\ mapLoaded /\ sourceData.features # <<>>)
        => /\ HasPoints(sourceData)
           /\ camera.op \in {"fitBounds", "flyTo"}
           /\ camera.center = BoxCentre(PointsOf(sourceData))

\* PolygonA is searched and flown to, then a search returns MultiPolygonC:
\* the source holds MultiPolygonC, the camera rests on PolygonA's centre
C14_Witness ==
    /\ Quiescent
    /\ mapLoaded
    /\ sourceData = FeatureCollection(<<"MultiPolygonC">>)
    /\ lastSearch.outcome = "empty-bounds"
    /\ camera.op = "flyTo"
    /\ camera.center = BoxCentre(PointsOf(FeatureCollection(<<"PolygonA">>)))
    /\ camera.center # BoxCentre(PointsOf(sourceData))

====
